---- MODULE Spec2Model ----
(***************************************************************************)
(* Authorization and session lifecycle layer of the PgLLens MCP server     *)
(* (server.ts): the in-process OAuth endpoints with their rate limiter,    *)
(* the authorization-code store, the client registry, the bearer           *)
(* middleware, the /mcp session registry and the graceful shutdown.        *)
(*                                                                         *)
(* Node runs every handler on one thread: a handler without an await is    *)
(* one atomic action; a handler with awaits is one action per segment      *)
(* between two awaits.  Time is Date.now(), counted in ticks of 30 s.      *)
(***************************************************************************)
EXTENDS Integers, Sequences, FiniteSets, TLC

\* ------------------------------------------------------------------ bounds
MaxTime == 4        \* Date.now() ranges over 0..MaxTime
MaxUuid == 2        \* number of randomUUID() calls in one run
MaxTransports == 2  \* number of StreamableHTTPServerTransport objects created
MaxSignals == 1     \* number of SIGINT/SIGTERM deliveries
MaxPwLen == 2       \* length in bytes of the passwords of SpecCompare

\* ------------------------------------------------- configuration, constants
\* MCP_RATE_LIMIT_ATTEMPTS, at its default
RATE_LIMIT_MAX_ATTEMPTS == 5
\* MCP_RATE_LIMIT_WINDOW_MS (default 900000), here configured to 3 ticks
RATE_LIMIT_WINDOW_MS == 3
\* the 60000 ms added to Date.now() when a code is stored: 2 ticks of 30 s
CODE_LIFETIME_MS == 2
\* MCP_OAUTH_TOKEN_EXPIRES_IN, in the same ticks
OAUTH_TOKEN_EXPIRES_IN == 20160

\* ------------------------------------------------------------ JS values
\* the value undefined of a string-typed field (a missing body field, header
\* or query parameter); "" is the empty string.  Both are falsy.
UNDEF == "<undefined>"
Truthy(s) == s \notin {UNDEF, ""}

\* A plain object used as a map ({}): own keys are the function's domain; a
\* lookup of a key that is not an own key falls through to Object.prototype.
ProtoKeys == {"constructor", "__proto__", "toString"}
Own(obj, k) == k \in DOMAIN obj
\* truthiness of obj[k] (every stored value is an object, every inherited
\* member of Object.prototype is a function or an object)
Lookup(obj, k) == Own(obj, k) \/ k \in ProtoKeys
Put(obj, k, v) == [x \in (DOMAIN obj) \cup {k} |-> IF x = k THEN v ELSE obj[x]]
Del(obj, k) == [x \in (DOMAIN obj) \ {k} |-> obj[x]]
EmptyObj == [x \in {} |-> 0]

\* randomUUID(): the n-th call returns a value no earlier call returned and no
\* client can have chosen
UuidNames == <<"u1", "u2", "u3", "u4", "u5", "u6", "u7", "u8">>
Uuid(n) == UuidNames[n]

\* a string that may be undefined, as bytes (Buffer.from encodes it)
Str(b) == [defined |-> TRUE, bytes |-> b]
NoStr == [defined |-> FALSE, bytes |-> <<>>]
Falsy(p) == ~p.defined \/ Len(p.bytes) = 0

VARIABLES
  now,            \* Date.now()
  uuids,          \* number of randomUUID() calls so far
  authPassword,   \* process.env.MCP_AUTH_PASSWORD
  useOAuth,       \* process.argv.includes('--oauth')
  rateLimitState, \* Map ip -> {attempts, lockoutUntil}
  authCodes,      \* code -> {client_id, redirect_uri, code_challenge, ..., expires}
  oauthClients,   \* client_id -> OAuthClient
  transports,     \* session id -> transport object
  tr,             \* the transport objects created so far, by creation order
  pending,        \* POST /mcp initialize requests suspended at an await
  sd,             \* the runs of shutdown() started so far
  resp,           \* the last request handled and its response
  ipHist,         \* history of each caller's password submissions
  codeHist,       \* history of each authorization code issued
  cmpHist,        \* history of the password comparisons evaluated per caller
  closeHist       \* history of the close() calls made on each transport

config == <<authPassword, useOAuth>>
oauthVars == <<rateLimitState, authCodes, oauthClients, ipHist, codeHist, cmpHist>>
mcpVars == <<transports, tr, pending, sd, closeHist>>
vars == <<now, uuids, config, oauthVars, mcpVars, resp>>

\* ------------------------------------------------------------ inputs
Ips == {"10.0.0.1", "10.0.0.2"}
ThePassword == Str(<<1, 2>>)
\* password fields a form may carry: the right one, a wrong one
Passwords == {ThePassword, Str(<<1, 3>>)}
\* query / form parameters of an authorize request
ParamsPkce ==
  [client_id |-> "c1", redirect_uri |-> "https://cb", state |-> "xyz",
   code_challenge |-> "ch", code_challenge_method |-> "S256"]
ParamsPlain ==
  [client_id |-> "c2", redirect_uri |-> "https://other", state |-> UNDEF,
   code_challenge |-> UNDEF, code_challenge_method |-> UNDEF]
AuthParams == {ParamsPkce, ParamsPlain}

NoParams == [client_id |-> UNDEF, redirect_uri |-> UNDEF, state |-> UNDEF,
             code_challenge |-> UNDEF, code_challenge_method |-> UNDEF]
NoLocation == [uri |-> UNDEF, code |-> UNDEF, state |-> UNDEF]
\* a registration body without redirect_uris
NoUris == [kind |-> "undefined", items |-> <<>>]
\* a response not yet given; every action fills in what it answers.  n flips
\* with every request handled, so that two equal requests are two steps.
NoResp ==
  [n |-> 0, op |-> "none", status |-> 0, error |-> "",
   ip |-> "", password |-> NoStr, params |-> NoParams, location |-> NoLocation,
   grant |-> UNDEF, code |-> UNDEF, client |-> UNDEF, secret |-> UNDEF,
   token |-> UNDEF,
   attemptsBefore |-> 0, cleared |-> -1, uris |-> NoUris, name |-> UNDEF,
   auth |-> NoStr, sid |-> UNDEF, body |-> UNDEF, routed |-> 0, session |-> UNDEF]
Answer(op) == [NoResp EXCEPT !.n = 1 - resp.n, !.op = op]

\* ------------------------------------------------------------ rate limiter
\* faulty variant: the lockout still holds at lockoutUntil itself
CheckRateLimitErrorInclusive(rl, ip, t) ==
  /\ ip \in DOMAIN rl
  /\ rl[ip].lockoutUntil >= t

\* faulty variant: the lockout is lifted one tick before lockoutUntil
CheckRateLimitErrorEarly(rl, ip, t) ==
  /\ ip \in DOMAIN rl
  /\ rl[ip].lockoutUntil > t + 1

\* checkRateLimit(ip) returns an error message
CheckRateLimitError(rl, ip, t) ==
  /\ ip \in DOMAIN rl
  /\ rl[ip].lockoutUntil > t

\* faulty variant: a check deletes every entry that is not locked
CheckRateLimitStateForget(rl, ip, t) ==
  IF ip \notin DOMAIN rl THEN rl
  ELSE IF rl[ip].lockoutUntil > t THEN rl
  ELSE Del(rl, ip)

\* faulty variant: an expired lockout is left in the map
CheckRateLimitStateStale(rl, ip, t) == rl

\* faulty variant: a check during the lockout restarts the window
CheckRateLimitStateExtend(rl, ip, t) ==
  IF ip \notin DOMAIN rl THEN rl
  ELSE IF rl[ip].lockoutUntil > t
       THEN [rl EXCEPT ![ip].lockoutUntil = t + RATE_LIMIT_WINDOW_MS]
       ELSE IF rl[ip].attempts >= RATE_LIMIT_MAX_ATTEMPTS THEN Del(rl, ip) ELSE rl

\* the map checkRateLimit(ip) leaves: an expired lockout is deleted
CheckRateLimitState(rl, ip, t) ==
  IF ip \notin DOMAIN rl THEN rl
  ELSE IF rl[ip].lockoutUntil > t THEN rl
  ELSE IF rl[ip].lockoutUntil <= t /\ rl[ip].attempts >= RATE_LIMIT_MAX_ATTEMPTS
       THEN Del(rl, ip)
       ELSE rl

\* faulty variant: the lockout starts one failure late
ReachedMaxAttemptsLate(attempts) == attempts > RATE_LIMIT_MAX_ATTEMPTS

\* state.attempts >= RATE_LIMIT_MAX_ATTEMPTS
ReachedMaxAttempts(attempts) == attempts >= RATE_LIMIT_MAX_ATTEMPTS

\* faulty variant: every failure starts a lockout window
RecordFailedAttemptStamp(rl, ip, t) ==
  LET state == IF ip \in DOMAIN rl THEN rl[ip] ELSE [attempts |-> 0, lockoutUntil |-> 0]
  IN Put(rl, ip, [attempts |-> state.attempts + 1,
                  lockoutUntil |-> t + RATE_LIMIT_WINDOW_MS])

\* faulty variant: the failure is not written back
RecordFailedAttemptLost(rl, ip, t) == rl

\* recordFailedAttempt(ip): the map it leaves
RecordFailedAttempt(rl, ip, t) ==
  LET state == IF ip \in DOMAIN rl THEN rl[ip] ELSE [attempts |-> 0, lockoutUntil |-> 0]
      n == state.attempts + 1
  IN Put(rl, ip, [attempts |-> n,
                  lockoutUntil |-> IF ReachedMaxAttempts(n)
                                   THEN t + RATE_LIMIT_WINDOW_MS
                                   ELSE state.lockoutUntil])

\* faulty variant: a success leaves the caller's entry in place
ClearRateLimitKept(rl, ip) == rl

\* clearRateLimit(ip)
ClearRateLimit(rl, ip) == Del(rl, ip)

\* ------------------------------------------------------------ passwords
\* Buffer.alloc(n) with src copied into it: zero-padded or truncated to n bytes
PaddedCopy(src, n) == [i \in 1..n |-> IF i <= Len(src) THEN src[i] ELSE 0]

\* crypto.timingSafeEqual on two buffers of one length
TimingSafeEqual(a, b) == \A i \in 1..Len(a) : a[i] = b[i]

\* faulty variant: with no password configured every submission passes
SafeComparePasswordsOpen(provided, expected) ==
  IF Falsy(expected) THEN TRUE
  ELSE IF Falsy(provided) THEN FALSE
  ELSE /\ Len(provided.bytes) = Len(expected.bytes)
       /\ TimingSafeEqual(provided.bytes, expected.bytes)

\* faulty variant: passwords of one length are taken as equal
SafeComparePasswordsLength(provided, expected) ==
  IF Falsy(provided) \/ Falsy(expected) THEN FALSE
  ELSE Len(provided.bytes) = Len(expected.bytes)

\* faulty variant: the result of the padded comparison is returned
SafeComparePasswordsPadded(provided, expected) ==
  IF Falsy(provided) \/ Falsy(expected) THEN FALSE
  ELSE TimingSafeEqual(PaddedCopy(provided.bytes, Len(expected.bytes)),
                       expected.bytes)

\* safeComparePasswords: its result
SafeComparePasswords(provided, expected) ==
  IF Falsy(provided) \/ Falsy(expected) THEN FALSE
  ELSE IF Len(provided.bytes) # Len(expected.bytes)
       THEN TimingSafeEqual(PaddedCopy(provided.bytes, Len(expected.bytes)),
                            expected.bytes) /\ FALSE
       ELSE TimingSafeEqual(provided.bytes, expected.bytes)

\* faulty variant: a length mismatch returns without comparing
CompareCallsShortCircuit(provided, expected) ==
  IF Falsy(provided) \/ Falsy(expected) THEN <<>>
  ELSE IF Len(provided.bytes) # Len(expected.bytes) THEN <<>>
       ELSE <<[a |-> Len(provided.bytes), b |-> Len(expected.bytes)]>>

\* safeComparePasswords: the calls of timingSafeEqual it makes before it
\* returns, each with the lengths of its two buffers
CompareCalls(provided, expected) ==
  IF Falsy(provided) \/ Falsy(expected) THEN <<>>
  ELSE IF Len(provided.bytes) # Len(expected.bytes)
       THEN <<[a |-> Len(PaddedCopy(provided.bytes, Len(expected.bytes))),
               b |-> Len(expected.bytes)]>>
       ELSE <<[a |-> Len(provided.bytes), b |-> Len(expected.bytes)]>>

\* ------------------------------------------------------ history (not code)
NoIpHist == [streak |-> 0, nthAt |-> 0, cleared |-> -1]
\* what a caller's history becomes when its submission is answered `status`:
\* streak counts the 401s since the last 302 or since the streak last reached
\* the threshold; nthAt is when it reached the threshold (0 while below it);
\* cleared is the attempt count the caller's entry held when its latest
\* submission succeeded, -1 when its latest submission did not succeed
IpHistAfter(h, status, before, t) ==
  IF status = 401
  THEN LET k == IF h.streak >= RATE_LIMIT_MAX_ATTEMPTS THEN 1 ELSE h.streak + 1
       IN [streak |-> k, nthAt |-> IF k = RATE_LIMIT_MAX_ATTEMPTS THEN t ELSE 0,
           cleared |-> -1]
  ELSE IF status = 302 THEN [NoIpHist EXCEPT !.cleared = before]
  ELSE [h EXCEPT !.cleared = -1]

\* the comparison history, kept for the callers in `on`: log[ip] holds the
\* times of the password comparisons evaluated for ip since its last successful
\* submission, the latest RATE_LIMIT_MAX_ATTEMPTS + 1 of them
NoCmpHist == [on |-> {}, log |-> [ip \in Ips |-> <<>>]]
CmpHistAfter(h, ip, status, t) ==
  IF ip \notin h.on \/ status = 429 THEN h
  ELSE IF status = 302 THEN [h EXCEPT !.log[ip] = <<>>]
  ELSE LET l == Append(h.log[ip], t)
       IN [h EXCEPT !.log[ip] = IF Len(l) > RATE_LIMIT_MAX_ATTEMPTS + 1
                                 THEN Tail(l) ELSE l]

\* the close history, kept only when on: calls[t] is the number of times
\* close() has been called on transport t, by the transport itself (a DELETE
\* it handles included) or by shutdown
NoCloseHist == [on |-> FALSE, calls |-> [t \in 1..MaxTransports |-> 0]]
CloseHistAfter(h, t) ==
  IF h.on /\ t \in DOMAIN h.calls THEN [h EXCEPT !.calls[t] = @ + 1] ELSE h

\* ------------------------------------------------------ authorization codes
\* authCodes[code] = {...} with expires: Date.now() + 60000
StoreCode(codes, code, fields, t) ==
  Put(codes, code, [client_id |-> fields.client_id,
                    redirect_uri |-> fields.redirect_uri,
                    code_challenge |-> fields.code_challenge,
                    code_challenge_method |-> fields.code_challenge_method,
                    expires |-> t + CODE_LIFETIME_MS])

\* !authCode || authCode.expires < Date.now(); the expires of an inherited
\* member is undefined, and undefined < n is false
CodeRejected(codes, code, t) ==
  \/ ~Lookup(codes, code)
  \/ Own(codes, code) /\ codes[code].expires < t

\* faulty variant: the used code is left in the store
ConsumeCodeKept(codes, code) == codes

\* delete authCodes[code] after a successful lookup
ConsumeCode(codes, code) == Del(codes, code)

\* faulty variant: a form that is never shown
AutoApproveAlways(pw) == TRUE

\* if (!authPassword): no password configured, auto-approve
AutoApprove(pw) == Falsy(pw)

\* GET /oauth/authorize
AuthorizeGet(q) ==
  /\ useOAuth
  /\ IF AutoApprove(authPassword)
     THEN /\ uuids < MaxUuid
          /\ LET code == Uuid(uuids + 1)
             IN /\ authCodes' = StoreCode(authCodes, code,
                                  [q EXCEPT !.code_challenge = UNDEF,
                                            !.code_challenge_method = UNDEF], now)
                /\ codeHist' = Put(codeHist, code,
                                  [issuedAt |-> now, by |-> "GET", redeemed |-> 0])
                /\ resp' = [Answer("GET /oauth/authorize") EXCEPT
                              !.status = 302, !.params = q, !.code = code,
                              !.location = [uri |-> q.redirect_uri, code |-> code,
                                            state |-> q.state]]
          /\ uuids' = uuids + 1
     ELSE /\ resp' = [Answer("GET /oauth/authorize") EXCEPT
                        !.status = 200, !.params = q]
          /\ UNCHANGED <<uuids, authCodes, codeHist>>
  /\ UNCHANGED <<now, config, rateLimitState, oauthClients, ipHist, cmpHist, mcpVars>>

\* POST /oauth/authorize
AuthorizePost(ip, password, q) ==
  /\ useOAuth
  /\ LET h == ipHist[ip]
         before == IF ip \in DOMAIN rateLimitState
                   THEN rateLimitState[ip].attempts ELSE 0
         base == [Answer("POST /oauth/authorize") EXCEPT
                    !.ip = ip, !.password = password, !.params = q,
                    !.attemptsBefore = before, !.cleared = h.cleared]
         checked == CheckRateLimitState(rateLimitState, ip, now)
     IN IF CheckRateLimitError(rateLimitState, ip, now)
        THEN /\ rateLimitState' = checked
             /\ resp' = [base EXCEPT !.status = 429]
             /\ ipHist' = [ipHist EXCEPT ![ip] = IpHistAfter(h, 429, before, now)]
             /\ cmpHist' = CmpHistAfter(cmpHist, ip, 429, now)
             /\ UNCHANGED <<uuids, authCodes, codeHist>>
        ELSE IF ~SafeComparePasswords(password, authPassword)
        THEN /\ rateLimitState' = RecordFailedAttempt(checked, ip, now)
             /\ resp' = [base EXCEPT !.status = 401]
             /\ ipHist' = [ipHist EXCEPT ![ip] = IpHistAfter(h, 401, before, now)]
             /\ cmpHist' = CmpHistAfter(cmpHist, ip, 401, now)
             /\ UNCHANGED <<uuids, authCodes, codeHist>>
        ELSE /\ uuids < MaxUuid
             /\ rateLimitState' = ClearRateLimit(checked, ip)
             /\ LET code == Uuid(uuids + 1)
                IN /\ authCodes' = StoreCode(authCodes, code, q, now)
                   /\ codeHist' = Put(codeHist, code,
                                     [issuedAt |-> now, by |-> "POST", redeemed |-> 0])
                   /\ resp' = [base EXCEPT
                                 !.status = 302, !.code = code,
                                 !.location = [uri |-> q.redirect_uri, code |-> code,
                                               state |-> q.state]]
             /\ uuids' = uuids + 1
             /\ ipHist' = [ipHist EXCEPT ![ip] = IpHistAfter(h, 302, before, now)]
             /\ cmpHist' = CmpHistAfter(cmpHist, ip, 302, now)
  /\ UNCHANGED <<now, config, oauthClients, mcpVars>>

\* ------------------------------------------------------ client registry
\* faulty variant: the record is written whether or not the id has one
AutoRegisterOverwrite(clients, client_id, client_secret, t) ==
  IF Truthy(client_id)
  THEN Put(clients, client_id,
           [client_id |-> client_id, client_secret |-> client_secret,
            redirect_uris |-> <<>>, client_name |-> "Auto-registered Client",
            created_at |-> t])
  ELSE clients

\* oauthClients[client_id] = {...} of the client_credentials branch
AutoRegister(clients, client_id, client_secret, t) ==
  IF Truthy(client_id) /\ ~Lookup(clients, client_id)
  THEN Put(clients, client_id,
           [client_id |-> client_id, client_secret |-> client_secret,
            redirect_uris |-> <<>>, client_name |-> "Auto-registered Client",
            created_at |-> t])
  ELSE clients

\* POST /oauth/token
OAuthToken(body) ==
  /\ useOAuth
  /\ LET grant_type == body.grant_type
         code == body.code
         client_id == body.client_id
         client_secret == body.client_secret
         base == [Answer("POST /oauth/token") EXCEPT
                    !.grant = grant_type, !.code = code, !.client = client_id,
                    !.secret = client_secret]
         token == Uuid(uuids + 1)
     IN IF grant_type = "client_credentials"
        THEN /\ uuids < MaxUuid
             /\ oauthClients' = AutoRegister(oauthClients, client_id, client_secret, now)
             /\ resp' = [base EXCEPT !.status = 200, !.token = token]
             /\ uuids' = uuids + 1
             /\ UNCHANGED <<authCodes, codeHist>>
        ELSE IF grant_type = "authorization_code"
        THEN IF CodeRejected(authCodes, code, now)
             THEN /\ authCodes' = Del(authCodes, code)
                  /\ resp' = [base EXCEPT !.status = 400, !.error = "invalid_grant"]
                  /\ UNCHANGED <<uuids, oauthClients, codeHist>>
             ELSE /\ uuids < MaxUuid
                  /\ authCodes' = ConsumeCode(authCodes, code)
                  /\ resp' = [base EXCEPT !.status = 200, !.token = token]
                  /\ uuids' = uuids + 1
                  /\ codeHist' = IF code \in DOMAIN codeHist
                                 THEN [codeHist EXCEPT ![code].redeemed = @ + 1]
                                 ELSE codeHist
                  /\ UNCHANGED oauthClients
        ELSE /\ resp' = [base EXCEPT !.status = 400, !.error = "unsupported_grant_type"]
             /\ UNCHANGED <<uuids, authCodes, oauthClients, codeHist>>
  /\ UNCHANGED <<now, config, rateLimitState, ipHist, cmpHist, mcpVars>>

\* redirect_uris a registration body may carry
UriBodies == {NoUris, [kind |-> "string", items |-> <<"https://cb">>],
              [kind |-> "array", items |-> <<>>],
              [kind |-> "array", items |-> <<"https://cb">>]}
\* faulty variant: the check without its length test
BadRedirectUrisAnyArray(u) == u.kind # "array"

\* !redirect_uris || !Array.isArray(redirect_uris) || redirect_uris.length === 0
BadRedirectUris(u) ==
  \/ u.kind = "undefined"
  \/ u.kind # "array"
  \/ Len(u.items) = 0

\* POST /oauth/register and POST /register
HandleClientRegistration(redirect_uris, client_name) ==
  /\ useOAuth
  /\ IF BadRedirectUris(redirect_uris)
     THEN /\ resp' = [Answer("POST /oauth/register") EXCEPT
                        !.uris = redirect_uris, !.name = client_name,
                        !.status = 400, !.error = "invalid_client_metadata"]
          /\ UNCHANGED <<uuids, oauthClients>>
     ELSE /\ uuids < MaxUuid
          /\ LET client_id == Uuid(uuids + 1)
             IN /\ oauthClients' =
                     Put(oauthClients, client_id,
                         [client_id |-> client_id, client_secret |-> UNDEF,
                          redirect_uris |-> redirect_uris.items,
                          client_name |-> IF Truthy(client_name) THEN client_name
                                          ELSE "Unknown Client",
                          created_at |-> now])
                /\ resp' = [Answer("POST /oauth/register") EXCEPT
                              !.uris = redirect_uris, !.name = client_name,
                              !.status = 201, !.client = client_id]
          /\ uuids' = uuids + 1
  /\ UNCHANGED <<now, config, rateLimitState, authCodes, ipHist, codeHist, cmpHist, mcpVars>>

\* Date.now() advances
Tick ==
  /\ now < MaxTime
  /\ now' = now + 1
  /\ UNCHANGED <<uuids, config, oauthVars, mcpVars, resp>>

\* ------------------------------------------------------ bearer middleware
BearerPrefix == <<"B", "e", "a", "r", "e", "r", " ">>
\* faulty variant: any scheme is taken for Bearer
StartsWithAny(s, pre) == TRUE

\* s.startsWith(pre)
StartsWith(s, pre) == Len(s) >= Len(pre) /\ SubSeq(s, 1, Len(pre)) = pre
\* faulty variant: a substring that starts one character early
SubstringEarly(s, from) == SubSeq(s, from, Len(s))

\* s.substring(from), from counted from 0
Substring(s, from) == SubSeq(s, from + 1, Len(s))

Passed == [status |-> 0, error |-> "next"]
\* the middleware createAuthMiddleware() returns: what it answers, or Passed
\* when it calls next()
AuthMiddleware(authHeader) ==
  IF Falsy(authHeader) \/ ~StartsWith(authHeader.bytes, BearerPrefix)
  THEN [status |-> 401, error |-> "unauthorized"]
  ELSE IF Len(Substring(authHeader.bytes, 7)) = 0
       THEN [status |-> 401, error |-> "invalid_token"]
       ELSE Passed

\* app.post/get/delete('/mcp', authMiddleware, handler) or without it
RouteGate(authHeader) == IF useOAuth THEN AuthMiddleware(authHeader) ELSE Passed

\* ------------------------------------------------------ sessions
\* a StreamableHTTPServerTransport: its sessionId (undefined until it has
\* initialized), whether it has closed
NewTransport == [sessionId |-> UNDEF, closed |-> FALSE]

\* faulty variant: a generator that returns the id it returned last
SessionIdGeneratorStale(n) == Uuid(IF n > 1 THEN n - 1 ELSE 1)

\* faulty variant: a generator that returns the same id every time
SessionIdGeneratorFixed(n) == Uuid(1)

\* sessionIdGenerator: () => randomUUID(), as the n-th randomUUID() call
SessionIdGenerator(n) == Uuid(n)

\* faulty variant: the callback registers the transport created first
OnSessionInitializedFirst(reg, sid, t) == Put(reg, sid, 1)

\* onsessioninitialized: transports[sid] = transport
OnSessionInitialized(reg, sid, t) == Put(reg, sid, t)

\* faulty variant: an onclose that leaves the registry alone
OnCloseKept(reg, sid) == reg

\* transport.onclose: delete transports[sid] if sid && transports[sid]
OnClose(reg, sid) == IF Truthy(sid) /\ Lookup(reg, sid) THEN Del(reg, sid) ELSE reg

\* the transport's close(): it closes and runs onclose
Closed(t) == [tr EXCEPT ![t].closed = TRUE]

\* POST /mcp, up to its first await
McpPost(auth, sid, body) ==
  LET gate == RouteGate(auth)
      base == [Answer("POST /mcp") EXCEPT !.auth = auth, !.sid = sid, !.body = body]
  IN
  /\ IF gate # Passed
     THEN /\ resp' = [Answer("POST /mcp") EXCEPT
                        !.auth = auth, !.status = gate.status, !.error = gate.error]
          /\ UNCHANGED <<tr, pending>>
     ELSE IF Truthy(sid) /\ Lookup(transports, sid)
     THEN \* existing session: transport.handleRequest answers; the member of
          \* Object.prototype found under an inherited key has no handleRequest,
          \* the TypeError is caught and answered 500
          /\ resp' = IF Own(transports, sid)
                     THEN [base EXCEPT !.status = 200, !.routed = transports[sid]]
                     ELSE [base EXCEPT !.status = 500, !.error = "Internal server error"]
          /\ UNCHANGED <<tr, pending>>
     ELSE IF ~Truthy(sid) /\ body = "initialize"
     THEN \* new transport; suspended at await server.connect(transport)
          /\ Len(tr) < MaxTransports
          /\ tr' = Append(tr, NewTransport)
          /\ pending' = pending \cup {[transport |-> Len(tr) + 1, auth |-> auth]}
          /\ resp' = [base EXCEPT !.status = 0]
     ELSE /\ resp' = [base EXCEPT !.status = 400,
                                  !.error = "Bad Request: No valid session ID"]
          /\ UNCHANGED <<tr, pending>>
  /\ UNCHANGED <<now, uuids, config, oauthVars, transports, sd, closeHist>>

\* POST /mcp of a new session, from await server.connect(transport) on:
\* transport.handleRequest either initializes (it generates the session id and
\* calls onsessioninitialized), or answers an error of its own without
\* initializing (406 for a missing Accept type), or connect or it throws (500)
McpPostInitialize(t, outcome) ==
  \E req \in pending :
  /\ req.transport = t
  /\ pending' = pending \ {req}
  /\ LET base == [Answer("POST /mcp") EXCEPT !.auth = req.auth, !.body = "initialize"]
     IN CASE outcome = "initialized" ->
               /\ uuids < MaxUuid
               /\ LET sid == SessionIdGenerator(uuids + 1)
                  IN /\ tr' = [tr EXCEPT ![t].sessionId = sid]
                     /\ transports' = OnSessionInitialized(transports, sid, t)
                     /\ resp' = [base EXCEPT !.status = 200, !.routed = t,
                                             !.session = sid]
               /\ uuids' = uuids + 1
          [] outcome = "refused" ->
               /\ resp' = [base EXCEPT !.status = 406, !.routed = t]
               /\ UNCHANGED <<uuids, tr, transports>>
          [] outcome = "throws" ->
               /\ resp' = [base EXCEPT !.status = 500,
                                       !.error = "Internal server error"]
               /\ UNCHANGED <<uuids, tr, transports>>
  /\ UNCHANGED <<now, config, oauthVars, sd, closeHist>>

\* GET /mcp: an inherited key finds no transport with a handleRequest and the
\* handler's promise rejects unanswered (status 0)
McpGet(auth, sid) ==
  LET gate == RouteGate(auth)
      base == [Answer("GET /mcp") EXCEPT !.auth = auth, !.sid = sid]
  IN
  /\ resp' = IF gate # Passed
             THEN [Answer("GET /mcp") EXCEPT
                     !.auth = auth, !.status = gate.status, !.error = gate.error]
             ELSE IF ~Truthy(sid) \/ ~Lookup(transports, sid)
             THEN [base EXCEPT !.status = 400,
                               !.error = "Invalid or missing session ID"]
             ELSE IF Own(transports, sid)
             THEN [base EXCEPT !.status = 200, !.routed = transports[sid]]
             ELSE [base EXCEPT !.status = 0, !.error = "TypeError"]
  /\ UNCHANGED <<now, uuids, config, oauthVars, mcpVars>>

\* DELETE /mcp: the transport, handling a DELETE, closes itself
McpDelete(auth, sid) ==
  LET gate == RouteGate(auth)
      base == [Answer("DELETE /mcp") EXCEPT !.auth = auth, !.sid = sid]
  IN
  /\ IF gate # Passed
     THEN /\ resp' = [Answer("DELETE /mcp") EXCEPT
                        !.auth = auth, !.status = gate.status, !.error = gate.error]
          /\ UNCHANGED <<tr, transports, closeHist>>
     ELSE IF ~Truthy(sid) \/ ~Lookup(transports, sid)
     THEN /\ resp' = [base EXCEPT !.status = 400,
                                  !.error = "Invalid or missing session ID"]
          /\ UNCHANGED <<tr, transports, closeHist>>
     ELSE IF Own(transports, sid)
     THEN /\ resp' = [base EXCEPT !.status = 200, !.routed = transports[sid]]
          /\ tr' = Closed(transports[sid])
          /\ transports' = OnClose(transports, tr[transports[sid]].sessionId)
          /\ closeHist' = CloseHistAfter(closeHist, transports[sid])
     ELSE /\ resp' = [base EXCEPT !.status = 0, !.error = "TypeError"]
          /\ UNCHANGED <<tr, transports, closeHist>>
  /\ UNCHANGED <<now, uuids, config, oauthVars, pending, sd>>

\* the transport closes on its own
TransportClose(t) ==
  /\ t \in 1..Len(tr)
  /\ Truthy(tr[t].sessionId)
  /\ ~tr[t].closed
  /\ tr' = Closed(t)
  /\ transports' = OnClose(transports, tr[t].sessionId)
  /\ closeHist' = CloseHistAfter(closeHist, t)
  /\ UNCHANGED <<now, uuids, config, oauthVars, pending, sd, resp>>

\* ------------------------------------------------------ shutdown
\* the keys for (const sessionId in transports) visits: the own keys at the
\* start of the loop, in insertion order
ForInKeys(reg) == SelectSeq(UuidNames, LAMBDA k : k \in DOMAIN reg)

\* for-in skips a key deleted before its turn (a deleted id never comes back)
Remaining(keys, reg) == SelectSeq(keys, LAMBDA k : k \in DOMAIN reg)

\* delete transports[sessionId] after the awaited close(): skipped when close threw
DeleteAfterClose(reg, k, threw) == IF threw THEN reg ELSE Del(reg, k)

\* the loop from the top of a turn to its await: with no key left it falls
\* through to await closePool(), and what follows (httpServer.close) touches
\* none of this state; otherwise transports[sessionId].close() is
\* called, which closes the transport and runs onclose, or throws
LoopTurn(rec, keys, reg, outcome) ==
  LET ks == Remaining(keys, reg)
  IN IF ks = <<>>
     THEN [sd |-> [rec EXCEPT !.pc = "closePool", !.keys = <<>>, !.threw = FALSE],
           tr |-> tr, transports |-> reg, called |-> 0]
     ELSE LET t == reg[Head(ks)]
          IN [sd |-> [rec EXCEPT !.pc = "awaitClose", !.keys = ks,
                                 !.threw = (outcome = "throws")],
              tr |-> IF outcome = "throws" THEN tr ELSE Closed(t),
              transports |-> IF outcome = "throws" THEN reg
                             ELSE OnClose(reg, tr[t].sessionId),
              called |-> t]

\* SIGINT or SIGTERM: shutdown() runs to its first await
Shutdown(outcome) ==
  /\ Len(sd) < MaxSignals
  /\ LET keys == ForInKeys(transports)
         rec == [pc |-> "start", keys |-> keys, threw |-> FALSE]
         turn == LoopTurn(rec, keys, transports, outcome)
     IN /\ sd' = Append(sd, turn.sd)
        /\ tr' = turn.tr
        /\ transports' = turn.transports
        /\ closeHist' = CloseHistAfter(closeHist, turn.called)
  /\ UNCHANGED <<now, uuids, config, oauthVars, pending, resp>>

\* the loop resumes after await close(): the delete or the catch, then the
\* next turn up to its await
ShutdownResume(i, outcome) ==
  /\ i \in 1..Len(sd)
  /\ sd[i].pc = "awaitClose"
  /\ LET reg == DeleteAfterClose(transports, Head(sd[i].keys), sd[i].threw)
         turn == LoopTurn(sd[i], Tail(sd[i].keys), reg, outcome)
     IN /\ sd' = [sd EXCEPT ![i] = turn.sd]
        /\ tr' = turn.tr
        /\ transports' = turn.transports
        /\ closeHist' = CloseHistAfter(closeHist, turn.called)
  /\ UNCHANGED <<now, uuids, config, oauthVars, pending, resp>>

\* ------------------------------------------------------ the OAuth endpoints
NoBody == [grant_type |-> UNDEF, code |-> UNDEF, client_id |-> UNDEF,
           client_secret |-> UNDEF]
\* codes a token request may carry: issued ones, ones not issued (yet), and
\* the name of a member of Object.prototype
CodeInputs == {Uuid(i) : i \in 1..MaxUuid} \cup {"constructor"}
ClientIdInputs == {UNDEF, "cli", "constructor"}
SecretInputs == {UNDEF, "s1", "s2"}
ClientNames == {UNDEF, "App"}
\* bodies of POST /oauth/token
CodeBodies ==
  {[NoBody EXCEPT !.grant_type = "authorization_code", !.code = c] : c \in CodeInputs}
CredentialBodies ==
  {[NoBody EXCEPT !.grant_type = "client_credentials", !.client_id = id,
                  !.client_secret = s] : id \in ClientIdInputs, s \in SecretInputs}
OtherBodies == {[NoBody EXCEPT !.grant_type = "refresh_token"]}

Init ==
  /\ now = 0
  /\ uuids = 0
  /\ authPassword \in {NoStr, ThePassword}
  /\ useOAuth = TRUE
  /\ rateLimitState = EmptyObj
  /\ authCodes = EmptyObj
  /\ oauthClients = EmptyObj
  /\ transports = EmptyObj
  /\ tr = <<>>
  /\ pending = {}
  /\ sd = <<>>
  /\ resp = NoResp
  /\ ipHist = [ip \in Ips |-> NoIpHist]
  /\ codeHist = EmptyObj
  /\ cmpHist = NoCmpHist
  /\ closeHist = NoCloseHist

Next ==
  \/ Tick
  \/ \E q \in AuthParams : AuthorizeGet(q)
  \/ \E p \in Passwords, q \in AuthParams : AuthorizePost("10.0.0.1", p, q)
  \/ \E b \in CodeBodies \cup OtherBodies : OAuthToken(b)

\* the authorization-code flow: authorize, then token, one caller
Spec == Init /\ [][Next]_vars

\* started with MCP_AUTH_PASSWORD set
InitPassword == Init /\ authPassword = ThePassword

NextPassword ==
  \/ Tick
  \/ AuthorizeGet(ParamsPkce)
  \/ \E p \in Passwords : AuthorizePost("10.0.0.1", p, ParamsPkce)
  \/ \E b \in CodeBodies \cup OtherBodies : OAuthToken(b)

\* the authorization-code flow behind a password, one caller
SpecPassword == InitPassword /\ [][NextPassword]_vars

\* started with MCP_AUTH_PASSWORD unset
InitNoPassword == Init /\ authPassword = NoStr

\* a submission may carry no password or an empty one
NextNoPassword ==
  \/ Tick
  \/ AuthorizeGet(ParamsPlain)
  \/ \E p \in Passwords \cup {NoStr, Str(<<>>)} :
        AuthorizePost("10.0.0.1", p, ParamsPlain)

\* the authorize endpoint with no password configured, one caller
SpecNoPassword == InitNoPassword /\ [][NextNoPassword]_vars

NextLimiter ==
  \/ Tick
  \/ \E ip \in Ips, p \in Passwords : AuthorizePost(ip, p, ParamsPkce)

\* password submissions of two callers
SpecLimiter == Init /\ [][NextLimiter]_vars

NextClients ==
  \/ Tick
  \/ \E b \in CredentialBodies \cup CodeBodies \cup OtherBodies : OAuthToken(b)
  \/ \E u \in UriBodies, nm \in ClientNames : HandleClientRegistration(u, nm)

\* the registration and token endpoints
SpecClients == Init /\ [][NextClients]_vars

\* passwords of at most MaxPwLen bytes 0 or 1 (0 is the byte Buffer.alloc pads
\* with), the empty one and undefined
ByteStrings ==
  {NoStr} \cup {Str(b) : b \in UNION {[1..n -> {0, 1}] : n \in 0..MaxPwLen}}

InitCompare ==
  /\ now = 0
  /\ uuids = 0
  /\ authPassword \in ByteStrings
  /\ useOAuth = TRUE
  /\ rateLimitState = EmptyObj
  /\ authCodes = EmptyObj
  /\ oauthClients = EmptyObj
  /\ transports = EmptyObj
  /\ tr = <<>>
  /\ pending = {}
  /\ sd = <<>>
  /\ resp = NoResp
  /\ ipHist = [ip \in Ips |-> NoIpHist]
  /\ codeHist = EmptyObj
  /\ cmpHist = NoCmpHist
  /\ closeHist = NoCloseHist

NextCompare ==
  \/ \E p \in ByteStrings : AuthorizePost("10.0.0.1", p, ParamsPlain)

\* password submissions of one caller, every configured and submitted password
SpecCompare == InitCompare /\ [][NextCompare]_vars

InitAttempts ==
  /\ now = 0
  /\ uuids = 0
  /\ authPassword = ThePassword
  /\ useOAuth = TRUE
  /\ rateLimitState = EmptyObj
  /\ authCodes = EmptyObj
  /\ oauthClients = EmptyObj
  /\ transports = EmptyObj
  /\ tr = <<>>
  /\ pending = {}
  /\ sd = <<>>
  /\ resp = NoResp
  /\ ipHist = [ip \in Ips |-> NoIpHist]
  /\ codeHist = EmptyObj
  /\ cmpHist = [NoCmpHist EXCEPT !.on = {"10.0.0.1"}]
  /\ closeHist = NoCloseHist

NextAttempts ==
  \/ Tick
  \/ \E p \in Passwords : AuthorizePost("10.0.0.1", p, ParamsPlain)
  \/ AuthorizePost("10.0.0.2", Str(<<1, 3>>), ParamsPlain)

\* password submissions of two callers, the second one always wrong, the times
\* of the comparisons of the first one recorded
SpecAttempts == InitAttempts /\ [][NextAttempts]_vars

\* Authorization headers: none, no scheme, "Bearer" alone, "Bearer " with an
\* empty token, another scheme, the scheme in lower case, a bearer token
AuthHeaders ==
  {NoStr, Str(<<"B", "e", "a", "r", "e", "r">>), Str(BearerPrefix),
   Str(<<"B", "a", "s", "i", "c", " ", "x">>),
   Str(<<"b", "e", "a", "r", "e", "r", " ", "x">>), Str(BearerPrefix \o <<"x">>)}
\* mcp-session-id headers: none, generated ids, a name of Object.prototype
SessionIdInputs == {Uuid(i) : i \in 1..MaxUuid} \cup {UNDEF, "constructor"}
Bodies == {"initialize", "tools/call"}

InitMcp ==
  /\ now = 0
  /\ uuids = 0
  /\ authPassword = NoStr
  /\ useOAuth \in BOOLEAN
  /\ rateLimitState = EmptyObj
  /\ authCodes = EmptyObj
  /\ oauthClients = EmptyObj
  /\ transports = EmptyObj
  /\ tr = <<>>
  /\ pending = {}
  /\ sd = <<>>
  /\ resp = NoResp
  /\ ipHist = [ip \in Ips |-> NoIpHist]
  /\ codeHist = EmptyObj
  /\ cmpHist = NoCmpHist
  /\ closeHist = NoCloseHist

\* the routes behind the bearer middleware, every header tried
NextGate ==
  \/ \E a \in AuthHeaders, sid \in SessionIdInputs, b \in Bodies : McpPost(a, sid, b)
  \/ \E t \in 1..MaxTransports, o \in {"initialized", "refused", "throws"} :
        McpPostInitialize(t, o)
  \/ \E a \in AuthHeaders, sid \in SessionIdInputs : McpGet(a, sid)
  \/ \E a \in AuthHeaders, sid \in SessionIdInputs : McpDelete(a, sid)

\* started with --oauth
InitGate == InitMcp /\ useOAuth = TRUE

SpecGate == InitGate /\ [][NextGate]_vars

\* a request of SpecMcp carries no Authorization header or a bearer token
SomeHeaders == {NoStr, Str(BearerPrefix \o <<"x">>)}

NextMcp ==
  \/ \E a \in SomeHeaders, sid \in SessionIdInputs, b \in Bodies : McpPost(a, sid, b)
  \/ \E t \in 1..MaxTransports, o \in {"initialized", "refused", "throws"} :
        McpPostInitialize(t, o)
  \/ \E a \in SomeHeaders, sid \in SessionIdInputs : McpGet(a, sid)
  \/ \E a \in SomeHeaders, sid \in SessionIdInputs : McpDelete(a, sid)
  \/ \E t \in 1..MaxTransports : TransportClose(t)

\* the /mcp routes and the transports, with and without --oauth
SpecMcp == InitMcp /\ [][NextMcp]_vars

\* the /mcp routes without the bearer middleware, the transports and shutdown
NextShutdown ==
  \/ \E sid \in SessionIdInputs, b \in Bodies : McpPost(NoStr, sid, b)
  \/ \E t \in 1..MaxTransports, o \in {"initialized", "refused", "throws"} :
        McpPostInitialize(t, o)
  \/ \E sid \in SessionIdInputs : McpGet(NoStr, sid)
  \/ \E sid \in SessionIdInputs : McpDelete(NoStr, sid)
  \/ \E t \in 1..MaxTransports : TransportClose(t)
  \/ \E o \in {"closes", "throws"} : Shutdown(o)
  \/ \E i \in 1..MaxSignals, o \in {"closes", "throws"} : ShutdownResume(i, o)

\* started without --oauth
InitShutdown == InitMcp /\ useOAuth = FALSE

SpecShutdown == InitShutdown /\ [][NextShutdown]_vars

InitCloses ==
  /\ now = 0
  /\ uuids = 0
  /\ authPassword = NoStr
  /\ useOAuth = FALSE
  /\ rateLimitState = EmptyObj
  /\ authCodes = EmptyObj
  /\ oauthClients = EmptyObj
  /\ transports = EmptyObj
  /\ tr = <<>>
  /\ pending = {}
  /\ sd = <<>>
  /\ resp = NoResp
  /\ ipHist = [ip \in Ips |-> NoIpHist]
  /\ codeHist = EmptyObj
  /\ cmpHist = NoCmpHist
  /\ closeHist = [NoCloseHist EXCEPT !.on = TRUE]

\* the routes, the transports and shutdown, the close() calls counted
SpecCloses == InitCloses /\ [][NextShutdown]_vars

\* ======================================================== the claims
\* this step answers a request (resp.n flips with every request handled)
Answers(op) == resp'.n # resp.n /\ resp'.op = op
\* this step answers a password submission of caller ip
Submits(ip) == Answers("POST /oauth/authorize") /\ resp'.ip = ip
\* caller ip's latest streak of failed submissions reached the threshold and
\* the window counted from that failure is not over
InLockout(ip) ==
  /\ ipHist[ip].streak = RATE_LIMIT_MAX_ATTEMPTS
  /\ now < ipHist[ip].nthAt + RATE_LIMIT_WINDOW_MS

\* C1: once RATE_LIMIT_MAX_ATTEMPTS consecutive failed submissions of a caller
\* have been recorded, every POST /oauth/authorize from it is answered 429 and
\* stores no code, whatever password it carries, while now is below (time of
\* the Nth failure) + window; the Nth failure sets lockoutUntil to that time;
\* and once now has reached it the submission is not answered 429.
C1_LockedOutUntilWindowEnds ==
  [][\A ip \in Ips : Submits(ip) =>
       /\ InLockout(ip) =>
            /\ resp'.status = 429
            /\ resp'.code = UNDEF
            /\ authCodes' = authCodes
       /\ (resp'.status = 401 /\ ipHist'[ip].streak = RATE_LIMIT_MAX_ATTEMPTS) =>
            /\ ip \in DOMAIN rateLimitState'
            /\ rateLimitState'[ip].lockoutUntil = now + RATE_LIMIT_WINDOW_MS
       /\ (ipHist[ip].streak = RATE_LIMIT_MAX_ATTEMPTS /\ ~InLockout(ip)) =>
            resp'.status # 429
    ]_vars

\* a submission carrying the configured password was answered 429
C1_Witness ==
  /\ resp.op = "POST /oauth/authorize"
  /\ resp.status = 429
  /\ resp.password = authPassword
  /\ resp.attemptsBefore = RATE_LIMIT_MAX_ATTEMPTS

\* this step answers a token request that presents the issued code c
Exchanges(c) ==
  /\ Answers("POST /oauth/token")
  /\ resp'.grant = "authorization_code"
  /\ resp'.code = c

\* C2: an authorization code is single-use.  Of the token requests presenting
\* one issued code at most one is answered with an access token; the first,
\* if it arrives before the code expires, is; every request after a successful
\* one is answered 400 invalid_grant; and the request that succeeds finds the
\* code in the store and leaves the store without it.
C2_CodeSingleUse ==
  [][\A c \in DOMAIN codeHist :
       /\ codeHist'[c].redeemed <= 1
       /\ Exchanges(c) =>
            /\ (Own(authCodes, c) /\ now < authCodes[c].expires) =>
                 (resp'.status = 200 /\ Truthy(resp'.token))
            /\ resp'.status = 200 => (Own(authCodes, c) /\ ~Own(authCodes', c))
            /\ codeHist[c].redeemed >= 1 =>
                 /\ resp'.status = 400
                 /\ resp'.error = "invalid_grant"
                 /\ resp'.token = UNDEF
    ]_vars

\* a code that was exchanged once was presented again and refused
C2_Witness ==
  /\ resp.op = "POST /oauth/token"
  /\ resp.status = 400
  /\ resp.error = "invalid_grant"
  /\ resp.code \in DOMAIN codeHist
  /\ codeHist[resp.code].redeemed = 1

\* C3: a code issued at time T is never exchanged at a time t >= T + lifetime,
\* t = T + lifetime included: the request is answered 400 invalid_grant and
\* gets no access token.
C3_NoExchangeFromExpiryOn ==
  [][\A c \in DOMAIN codeHist :
       (Exchanges(c) /\ now >= codeHist[c].issuedAt + CODE_LIFETIME_MS) =>
         /\ resp'.status = 400
         /\ resp'.error = "invalid_grant"
         /\ resp'.token = UNDEF
    ]_vars

\* C4: a successful submission of caller X removes X's rate-limit entry, and
\* the next failed submission of X (the one that follows a success) leaves X's
\* attempt count at 1, whatever count the success removed.
C4_SuccessClearsCount ==
  [][\A ip \in Ips : Submits(ip) =>
       /\ resp'.status = 302 => ip \notin DOMAIN rateLimitState'
       /\ (resp'.status = 401 /\ ipHist[ip].cleared >= 0) =>
            /\ ip \in DOMAIN rateLimitState'
            /\ rateLimitState'[ip].attempts = 1
    ]_vars

\* a failed submission that follows a success which removed a count of 4
C4_Witness ==
  /\ resp.op = "POST /oauth/authorize"
  /\ resp.status = 401
  /\ resp.cleared = RATE_LIMIT_MAX_ATTEMPTS - 1
  /\ rateLimitState[resp.ip].attempts = 1

\* this step answers a /mcp request that reached its handler carrying the
\* mcp-session-id sid (a request the bearer middleware rejects is answered 401
\* before any handler runs)
Carries(sid) ==
  /\ resp'.n # resp.n
  /\ resp'.op \in {"POST /mcp", "GET /mcp", "DELETE /mcp"}
  /\ resp'.sid = sid

\* this step answers an initialize POST that carried no mcp-session-id
AnswersInitialize ==
  /\ Answers("POST /mcp")
  /\ resp'.body = "initialize"
  /\ resp'.sid = UNDEF
  /\ resp'.status # 0

\* the ids the transports created so far have been given
UsedIds == {tr[t].sessionId : t \in 1..Len(tr)} \ {UNDEF}

C6_ClosedSessionGone ==
  [][/\ \A t \in 1..Len(tr') :
          tr'[t].closed => ~Own(transports', tr'[t].sessionId)
     /\ \A t \in 1..Len(tr) :
          (tr[t].closed /\ Carries(tr[t].sessionId)) =>
            (resp'.status = 400 /\ resp'.routed = 0)
     /\ \A t \in 1..Len(tr) :
          (tr[t].closed /\ AnswersInitialize) => resp'.session # tr[t].sessionId
    ]_vars

\* a request carrying the id of a closed session was answered 400
C6_Witness ==
  /\ resp.status = 400
  /\ Truthy(resp.sid)
  /\ \E t \in 1..Len(tr) : tr[t].closed /\ tr[t].sessionId = resp.sid

\* this step ends the loop of shutdown run i (it goes on to await closePool())
LoopEnds(i) ==
  /\ i \in 1..Len(sd')
  /\ sd'[i].pc = "closePool"
  /\ (i \in 1..Len(sd) => sd[i].pc # "closePool")

\* C7: when shutdown's loop over the registered sessions has finished, the
\* session registry is empty, the entries whose close() threw included.
C7_RegistryEmptyAfterLoop ==
  [][\A i \in 1..MaxSignals : LoopEnds(i) => transports' = EmptyObj]_vars

\* this step answers a /mcp request that carried the Authorization header h
Presents(h) ==
  /\ resp'.n # resp.n
  /\ resp'.op \in {"POST /mcp", "GET /mcp", "DELETE /mcp"}
  /\ resp'.auth = h

\* C8 (as stated): with bearer auth enabled a /mcp request without an
\* Authorization header is answered 401 invalid_request, and one whose header
\* is "Bearer " with an empty token is answered 401 invalid_token.
C8_MissingHeaderInvalidRequest ==
  [][/\ Presents(NoStr) =>
          (resp'.status = 401 /\ resp'.error = "invalid_request")
     /\ Presents(Str(BearerPrefix)) =>
          (resp'.status = 401 /\ resp'.error = "invalid_token")
    ]_vars

\* C8 (amended): with bearer auth enabled a /mcp request without an
\* Authorization header is answered 401 with the error code unauthorized, and
\* one whose header is "Bearer " with an empty token is answered 401
\* invalid_token; neither reaches a handler.
C8_MissingHeaderUnauthorized ==
  [][/\ Presents(NoStr) =>
          /\ resp'.status = 401
          /\ resp'.error = "unauthorized"
          /\ UNCHANGED mcpVars
     /\ Presents(Str(BearerPrefix)) =>
          /\ resp'.status = 401
          /\ resp'.error = "invalid_token"
          /\ UNCHANGED mcpVars
    ]_vars

\* a request with "Bearer " and nothing after it was turned away
C8_Witness ==
  /\ useOAuth
  /\ resp.op = "DELETE /mcp"
  /\ resp.auth = Str(BearerPrefix)
  /\ resp.status = 401
  /\ resp.error = "invalid_token"
  /\ transports # EmptyObj

\* this step answers a client_credentials token request for client id
Requests(id) ==
  /\ Answers("POST /oauth/token")
  /\ resp'.grant = "client_credentials"
  /\ resp'.client = id

\* C9: a client_credentials request whose client_id has no record in the
\* registry is answered with an access token and adds exactly one record, for
\* that id, with no redirect URIs and the generic name; a request whose
\* client_id has a record is answered with a token and changes nothing.
C9_AutoRegisterOnce ==
  [][\A id \in ClientIdInputs \ {UNDEF} : Requests(id) =>
       /\ resp'.status = 200
       /\ Truthy(resp'.token)
       /\ Own(oauthClients, id) => oauthClients' = oauthClients
       /\ ~Own(oauthClients, id) =>
            /\ DOMAIN oauthClients' = DOMAIN oauthClients \cup {id}
            /\ oauthClients'[id].client_id = id
            /\ oauthClients'[id].redirect_uris = <<>>
            /\ oauthClients'[id].client_name = "Auto-registered Client"
            /\ \A k \in DOMAIN oauthClients : oauthClients'[k] = oauthClients[k]
    ]_vars

\* C10: a registration whose redirect_uris is missing, not a list, or an empty
\* list is answered 400 and leaves the registry as it was; any other one is
\* answered 201 with a client_id that had no record, and the registry gains
\* exactly one record, under that id, holding the redirect URIs and the name
\* given or else the placeholder name.
C10_RegistrationValidated ==
  [][Answers("POST /oauth/register") =>
       IF resp'.uris.kind # "array" \/ resp'.uris.items = <<>>
       THEN /\ resp'.status = 400
            /\ oauthClients' = oauthClients
       ELSE /\ resp'.status = 201
            /\ ~Own(oauthClients, resp'.client)
            /\ DOMAIN oauthClients' = DOMAIN oauthClients \cup {resp'.client}
            /\ \A k \in DOMAIN oauthClients : oauthClients'[k] = oauthClients[k]
            /\ oauthClients'[resp'.client].client_id = resp'.client
            /\ oauthClients'[resp'.client].redirect_uris = resp'.uris.items
            /\ oauthClients'[resp'.client].client_name =
                 (IF Truthy(resp'.name) THEN resp'.name ELSE "Unknown Client")
    ]_vars

\* a second client registered without a name got the placeholder
C10_Witness ==
  /\ resp.op = "POST /oauth/register"
  /\ resp.status = 201
  /\ resp.name = UNDEF
  /\ Own(oauthClients, resp.client)
  /\ oauthClients[resp.client].client_name = "Unknown Client"
  /\ Cardinality(DOMAIN oauthClients) >= 2

\* C11: GET /oauth/authorize issues a code exactly when no password is
\* configured: then it stores one new code, never issued before, and redirects
\* to redirect_uri with that code and the state of the request; with a
\* password configured it answers with the form and leaves the store as it was.
C11_AutoApproveIffNoPassword ==
  [][Answers("GET /oauth/authorize") =>
       IF Falsy(authPassword)
       THEN /\ resp'.status = 302
            /\ Truthy(resp'.code)
            /\ resp'.code \notin DOMAIN codeHist
            /\ ~Own(authCodes, resp'.code)
            /\ DOMAIN authCodes' = DOMAIN authCodes \cup {resp'.code}
            /\ \A c \in DOMAIN authCodes : authCodes'[c] = authCodes[c]
            /\ resp'.location = [uri |-> resp'.params.redirect_uri,
                                 code |-> resp'.code,
                                 state |-> resp'.params.state]
       ELSE /\ resp'.status = 200
            /\ resp'.code = UNDEF
            /\ resp'.location = NoLocation
            /\ authCodes' = authCodes
    ]_vars

\* with a password configured and a code in the store, a GET showed the form
C11_Witness ==
  /\ ~Falsy(authPassword)
  /\ resp.op = "GET /oauth/authorize"
  /\ resp.status = 200
  /\ authCodes # EmptyObj

\* C12: a POST /mcp that reaches its handler carrying a session id the
\* registry does not hold (whatever its body), or carrying none with a body
\* that is not an initialize request, is answered 400 "no valid session",
\* creates no transport and leaves the session registry as it was.
C12_UnknownSessionRejected ==
  [][(/\ Answers("POST /mcp")
      /\ \/ Truthy(resp'.sid) /\ ~Own(transports, resp'.sid)
         \/ resp'.sid = UNDEF /\ resp'.body = "tools/call") =>
       /\ resp'.status = 400
       /\ resp'.error = "Bad Request: No valid session ID"
       /\ tr' = tr
       /\ pending' = pending
       /\ transports' = transports
    ]_vars

\* this step answers a submission whose password was compared (one that is
\* not turned away as rate-limited)
Compares ==
  /\ Answers("POST /oauth/authorize")
  /\ resp'.status # 429

\* C13: the comparison accepts exactly when both the submitted and the
\* configured password are defined, non-empty and equal byte for byte: it
\* rejects an empty or undefined input, inputs of different lengths (a prefix
\* of the configured password, or one that zero bytes would pad to it,
\* included) and inputs of one length that differ.
C13_AcceptsIffEqualNonEmpty ==
  [][Compares =>
       (resp'.status = 302 <=>
          /\ resp'.password.defined /\ authPassword.defined
          /\ resp'.password.bytes # <<>>
          /\ resp'.password.bytes = authPassword.bytes)
    ]_vars

\* a submission one zero byte short of the configured password was refused
C13_Witness ==
  /\ resp.op = "POST /oauth/authorize"
  /\ resp.status = 401
  /\ authPassword = Str(<<1, 0>>)
  /\ resp.password = Str(<<1>>)

C14_AtMostNPerWindow ==
  \A ip \in cmpHist.on :
    LET l == cmpHist.log[ip]
    IN Len(l) = RATE_LIMIT_MAX_ATTEMPTS + 1 =>
         l[RATE_LIMIT_MAX_ATTEMPTS + 1] - l[1] >= RATE_LIMIT_WINDOW_MS

\* six comparisons for one caller, the other caller having failed in between
C14_Witness ==
  /\ Len(cmpHist.log["10.0.0.1"]) = RATE_LIMIT_MAX_ATTEMPTS + 1
  /\ ipHist["10.0.0.2"].streak >= 1
  /\ resp.op = "POST /oauth/authorize" /\ resp.ip = "10.0.0.1" /\ resp.status = 401

\* ---------------------------------------------------------------------------
\* C15: with bearer auth enabled a POST, GET or DELETE /mcp request gets past
\* the middleware exactly when its Authorization header is "Bearer " followed
\* by at least one character; any other request is answered 401 and leaves the
\* sessions alone. No token is ever issued in SpecGate, so the token that
\* passes is one /oauth/token never returned.
C15_AnyNonEmptyBearerPasses ==
  [][\A h \in AuthHeaders :
       Presents(h) =>
         LET bearer == /\ h.defined
                       /\ Len(h.bytes) > Len(BearerPrefix)
                       /\ SubSeq(h.bytes, 1, Len(BearerPrefix)) = BearerPrefix
         IN IF bearer THEN resp'.status # 401
            ELSE resp'.status = 401 /\ UNCHANGED mcpVars
    ]_vars

\* a session was created on a token no exchange returned
C15_Witness ==
  /\ useOAuth
  /\ resp.op = "POST /mcp"
  /\ resp.auth = Str(BearerPrefix \o <<"x">>)
  /\ resp.status = 200
  /\ resp.session # UNDEF
  /\ Own(transports, resp.session)
  /\ authCodes = EmptyObj

\* ---------------------------------------------------------------------------
\* C17: one POST /oauth/authorize checks the limit, compares the password and
\* updates the caller's counter in that order and in one step.  The answer is
\* 429 exactly when the entry the step found is locked, whatever the password;
\* a 401 leaves the count one above the count the check left and a 302 leaves
\* no entry; and a wrong submission arriving at count N-1 leaves the caller
\* locked in the very state it produces, so a second one arriving with it is
\* answered 429.
C17_CheckCompareUpdateOneStep ==
  [][\A ip \in Ips : Submits(ip) =>
       LET had == ip \in DOMAIN rateLimitState
           locked == had /\ rateLimitState[ip].lockoutUntil > now
           expired == /\ had /\ ~locked
                      /\ rateLimitState[ip].attempts >= RATE_LIMIT_MAX_ATTEMPTS
           count == IF had /\ ~expired THEN rateLimitState[ip].attempts ELSE 0
       IN /\ resp'.status = 429 <=> locked
          /\ resp'.status = 401 =>
               /\ resp'.password # authPassword
               /\ ip \in DOMAIN rateLimitState'
               /\ rateLimitState'[ip].attempts = count + 1
          /\ resp'.status = 302 =>
               /\ resp'.password = authPassword
               /\ ip \notin DOMAIN rateLimitState'
          /\ (resp'.status = 401 /\ count = RATE_LIMIT_MAX_ATTEMPTS - 1) =>
               rateLimitState'[ip].lockoutUntil > now'
          /\ \A other \in Ips \ {ip} :
               /\ (other \in DOMAIN rateLimitState') = (other \in DOMAIN rateLimitState)
               /\ other \in DOMAIN rateLimitState =>
                    rateLimitState'[other] = rateLimitState[other]
    ]_vars

\* a wrong submission was answered 429 at the time the caller's Nth failure
\* was recorded, the other caller holding a count of its own
C17_Witness ==
  /\ resp.op = "POST /oauth/authorize"
  /\ resp.ip = "10.0.0.1"
  /\ resp.status = 429
  /\ resp.password # authPassword
  /\ ipHist["10.0.0.1"].streak = RATE_LIMIT_MAX_ATTEMPTS
  /\ ipHist["10.0.0.1"].nthAt = now
  /\ "10.0.0.2" \in DOMAIN rateLimitState

\* ---------------------------------------------------------------------------
\* C18: a caller's attempt count changes only by a failed comparison of its
\* own submission (to one more than the count the check left) or by a reset
\* (its own success, or the check deleting an expired lockout); a submission
\* answered 429 leaves the whole rate-limit map as it was, the caller's
\* attempts and lockoutUntil included; and no step that is not a submission
\* changes the map.
C18_CountChangesOnlyOnFailureOrReset ==
  [][/\ (Answers("POST /oauth/authorize") /\ resp'.status = 429) =>
          rateLimitState' = rateLimitState
     /\ \A ip \in Ips :
          LET before == IF ip \in DOMAIN rateLimitState
                        THEN rateLimitState[ip].attempts ELSE 0
              after == IF ip \in DOMAIN rateLimitState'
                       THEN rateLimitState'[ip].attempts ELSE 0
          IN after # before =>
               /\ Submits(ip)
               /\ \/ resp'.status = 401 /\ after \in {before + 1, 1}
                  \/ resp'.status = 302 /\ after = 0
     /\ ~Answers("POST /oauth/authorize") => rateLimitState' = rateLimitState
    ]_vars

\* a submission was answered 429 some time into the lockout, the entry still
\* holding the lockoutUntil the Nth failure set
C18_Witness ==
  /\ resp.op = "POST /oauth/authorize"
  /\ resp.ip = "10.0.0.2"
  /\ resp.status = 429
  /\ now > ipHist["10.0.0.2"].nthAt
  /\ "10.0.0.2" \in DOMAIN rateLimitState
  /\ rateLimitState["10.0.0.2"] =
       [attempts |-> RATE_LIMIT_MAX_ATTEMPTS,
        lockoutUntil |-> ipHist["10.0.0.2"].nthAt + RATE_LIMIT_WINDOW_MS]

\* ---------------------------------------------------------------------------
\* C19: a submission that finds an entry whose lockout has expired
\* (lockoutUntil <= now) with attempts at or above the threshold is not
\* answered 429; if its password is wrong the entry it leaves holds a count of
\* 1 and is not locked.  A caller's failure leaves it locked only when it
\* brings the count to the threshold, and the count is the number of its
\* failures since its last success or lockout, so the caller is locked again
\* by its threshold-th failure after the expiry, this one included, and not
\* before.
C19_ExpiredLockoutStartsAfresh ==
  [][\A ip \in Ips : Submits(ip) =>
       LET stale == /\ ip \in DOMAIN rateLimitState
                    /\ rateLimitState[ip].lockoutUntil <= now
                    /\ rateLimitState[ip].attempts >= RATE_LIMIT_MAX_ATTEMPTS
       IN /\ stale =>
               /\ resp'.status # 429
               /\ resp'.status = 401 =>
                    /\ rateLimitState'[ip].attempts = 1
                    /\ rateLimitState'[ip].lockoutUntil <= now
          /\ resp'.status = 401 =>
               /\ rateLimitState'[ip].lockoutUntil > now <=>
                    rateLimitState'[ip].attempts = RATE_LIMIT_MAX_ATTEMPTS
               /\ rateLimitState'[ip].attempts = ipHist'[ip].streak
    ]_vars

\* after an expired lockout the caller failed again and holds a count of 1
C19_Witness ==
  /\ resp.op = "POST /oauth/authorize"
  /\ resp.ip = "10.0.0.1"
  /\ resp.status = 401
  /\ resp.attemptsBefore = RATE_LIMIT_MAX_ATTEMPTS
  /\ rateLimitState["10.0.0.1"].attempts = 1

\* ---------------------------------------------------------------------------
\* C20: every step of GET or POST /oauth/authorize that issues a code stores
\* it with the client_id, the redirect_uri, the code_challenge and the
\* code_challenge_method its request carried.
C20_CodeStoredWithRequestFields ==
  [][((Answers("GET /oauth/authorize") \/ Answers("POST /oauth/authorize"))
        /\ resp'.status = 302) =>
       /\ Own(authCodes', resp'.code)
       /\ authCodes'[resp'.code].client_id = resp'.params.client_id
       /\ authCodes'[resp'.code].redirect_uri = resp'.params.redirect_uri
       /\ authCodes'[resp'.code].code_challenge = resp'.params.code_challenge
       /\ authCodes'[resp'.code].code_challenge_method =
            resp'.params.code_challenge_method
    ]_vars

\* ---------------------------------------------------------------------------
\* C21: a session id enters the registry only in the step in which its
\* transport confirms initialization.  Every registered id maps to a transport
\* that holds that id; an id new to the registry is the session of an
\* initialize POST answered 200 in that step; and an initialize POST that only
\* creates its transport, or whose transport refuses or throws, leaves the
\* registry as it was.
C21_RegisteredOnlyWhenInitialized ==
  [][/\ \A sid \in DOMAIN transports' :
          /\ transports'[sid] \in 1..Len(tr')
          /\ tr'[transports'[sid]].sessionId = sid
     /\ \A sid \in (DOMAIN transports') \ (DOMAIN transports) :
          /\ AnswersInitialize
          /\ resp'.status = 200
          /\ resp'.session = sid
     /\ (Answers("POST /mcp") /\ resp'.body = "initialize" /\ resp'.sid = UNDEF
           /\ resp'.status # 200) =>
          transports' = transports
    ]_vars

\* the second transport refused to initialize and only the first is registered
C21_Witness ==
  /\ Len(tr) = 2
  /\ resp.op = "POST /mcp"
  /\ resp.status = 406
  /\ resp.routed = 2
  /\ tr[2].sessionId = UNDEF
  /\ DOMAIN transports = {tr[1].sessionId}

\* ---------------------------------------------------------------------------
\* C22: close() is called on no transport a second time, whatever DELETE /mcp
\* requests, closes by the transport itself and runs of shutdown occur.
C22_ClosedOnce ==
  \A t \in 1..MaxTransports : closeHist.calls[t] <= 1

\* ---------------------------------------------------------------------------
\* C23: initialize POSTs without a session id, however their steps interleave,
\* each get a transport of their own and a session id of their own.  The step
\* that takes such a request creates one new transport and suspends on it
\* alone; no two suspended requests hold one transport; no two transports hold
\* one session id; and the registry maps every id to a transport that has not
\* closed and no two ids to one transport.
C23_OneTransportOneIdEach ==
  [][/\ (Answers("POST /mcp") /\ resp'.status = 0) =>
          /\ Len(tr') = Len(tr) + 1
          /\ pending' \ pending = {[transport |-> Len(tr'), auth |-> resp'.auth]}
          /\ pending \subseteq pending'
     /\ \A r1, r2 \in pending' : r1.transport = r2.transport => r1 = r2
     /\ \A t1, t2 \in 1..Len(tr') :
          (t1 # t2 /\ Truthy(tr'[t1].sessionId)) =>
            tr'[t1].sessionId # tr'[t2].sessionId
     /\ \A sid \in DOMAIN transports' :
          /\ transports'[sid] \in 1..Len(tr')
          /\ ~tr'[transports'[sid]].closed
     /\ \A s1, s2 \in DOMAIN transports' :
          transports'[s1] = transports'[s2] => s1 = s2
    ]_vars

\* two requests were suspended together and the one that came second was
\* initialized first; both sessions are registered
C23_Witness ==
  /\ Len(tr) = 2
  /\ tr[1].sessionId = Uuid(2)
  /\ tr[2].sessionId = Uuid(1)
  /\ DOMAIN transports = {Uuid(1), Uuid(2)}
  /\ transports[Uuid(1)] = 2
  /\ transports[Uuid(2)] = 1

\* ---------------------------------------------------------------------------
\* C24: the client registry only grows.  Every step leaves every record it
\* found in place with all its fields as they were; a client_credentials
\* request that names a registered client_id with another client_secret is
\* answered and the stored secret stays.
C24_RegistryAppendOnly ==
  [][/\ \A k \in DOMAIN oauthClients :
          /\ Own(oauthClients', k)
          /\ oauthClients'[k] = oauthClients[k]
     /\ \A id \in ClientIdInputs \ {UNDEF} :
          (/\ Requests(id)
           /\ Own(oauthClients, id)
           /\ resp'.secret # oauthClients[id].client_secret) =>
             /\ resp'.status = 200
             /\ oauthClients'[id].client_secret = oauthClients[id].client_secret
    ]_vars

\* a client registered with one secret was named with another
C24_Witness ==
  /\ resp.op = "POST /oauth/token"
  /\ resp.grant = "client_credentials"
  /\ resp.client = "cli"
  /\ resp.secret = "s2"
  /\ resp.status = 200
  /\ Own(oauthClients, "cli")
  /\ oauthClients["cli"].client_secret = "s1"

\* ---------------------------------------------------------------------------
\* C25: with a password configured, a code enters the store only in a step
\* that answers a POST /oauth/authorize with a redirect carrying that code,
\* whose password is the configured one and whose caller's entry, if it has
\* one, is not locked at that time; hence every code in the store was issued
\* by such a POST.
C25_CodesOnlyFromCorrectPassword ==
  [][~Falsy(authPassword) =>
       /\ \A c \in (DOMAIN authCodes') \ (DOMAIN authCodes) :
            /\ Answers("POST /oauth/authorize")
            /\ resp'.status = 302
            /\ resp'.code = c
            /\ resp'.password = authPassword
            /\ resp'.ip \in DOMAIN rateLimitState =>
                 rateLimitState[resp'.ip].lockoutUntil <= now
       /\ \A c \in DOMAIN authCodes' :
            c \in DOMAIN codeHist' /\ codeHist'[c].by = "POST"
    ]_vars

\* a code is in the store after a failed and then a correct submission
C25_Witness ==
  /\ ~Falsy(authPassword)
  /\ resp.op = "POST /oauth/authorize"
  /\ resp.status = 302
  /\ resp.attemptsBefore >= 1
  /\ Own(authCodes, resp.code)

\* ---------------------------------------------------------------------------
\* C26: every entry of the rate-limit map holds between 1 and
\* RATE_LIMIT_MAX_ATTEMPTS attempts, and its lockoutUntil is other than 0
\* exactly when its attempts equal RATE_LIMIT_MAX_ATTEMPTS.
C26_CountWithinThreshold ==
  \A ip \in DOMAIN rateLimitState :
    /\ rateLimitState[ip].attempts \in 1..RATE_LIMIT_MAX_ATTEMPTS
    /\ rateLimitState[ip].lockoutUntil # 0 <=>
         rateLimitState[ip].attempts = RATE_LIMIT_MAX_ATTEMPTS

\* one caller is at the threshold for the second time, the other below it
C26_Witness ==
  /\ DOMAIN rateLimitState = Ips
  /\ rateLimitState["10.0.0.1"].attempts = RATE_LIMIT_MAX_ATTEMPTS
  /\ rateLimitState["10.0.0.1"].lockoutUntil > RATE_LIMIT_WINDOW_MS
  /\ rateLimitState["10.0.0.2"].attempts = RATE_LIMIT_MAX_ATTEMPTS - 1
  /\ rateLimitState["10.0.0.2"].lockoutUntil = 0

\* ---------------------------------------------------------------------------
\* C27 (as stated): with no password configured every POST /oauth/authorize,
\* whatever password it carries, is answered 401, is recorded as a failed
\* attempt of its caller and issues no code.
C27_EverySubmissionUnauthorized ==
  [][(Falsy(authPassword) /\ Answers("POST /oauth/authorize")) =>
       /\ resp'.status = 401
       /\ resp'.code = UNDEF
       /\ authCodes' = authCodes
       /\ resp'.ip \in DOMAIN rateLimitState'
       /\ rateLimitState'[resp'.ip].attempts # resp'.attemptsBefore
    ]_vars

\* C27 (amended): with no password configured no POST /oauth/authorize issues
\* a code, whatever password it carries.  A submission whose caller is not
\* locked out is answered 401 and recorded as a failed attempt, the
\* threshold-th one locking the caller out; a submission during the lockout is
\* answered 429 and recorded nowhere.  GET /oauth/authorize issues a code each
\* time, the caller of the POSTs locked out or not.
C27_NoCodeFromSubmissions ==
  [][Falsy(authPassword) =>
       /\ \A ip \in Ips : Submits(ip) =>
            LET locked == /\ ip \in DOMAIN rateLimitState
                          /\ rateLimitState[ip].lockoutUntil > now
            IN /\ resp'.code = UNDEF
               /\ authCodes' = authCodes
               /\ locked => (resp'.status = 429 /\ rateLimitState' = rateLimitState)
               /\ ~locked =>
                    /\ resp'.status = 401
                    /\ ip \in DOMAIN rateLimitState'
                    /\ rateLimitState'[ip].attempts \in {resp'.attemptsBefore + 1, 1}
                    /\ rateLimitState'[ip].attempts = RATE_LIMIT_MAX_ATTEMPTS =>
                         rateLimitState'[ip].lockoutUntil = now + RATE_LIMIT_WINDOW_MS
       /\ Answers("GET /oauth/authorize") =>
            /\ resp'.status = 302
            /\ Own(authCodes', resp'.code)
            /\ ~Own(authCodes, resp'.code)
    ]_vars

\* the caller was locked out by submissions that carried no usable password
\* and a GET then issued a code
C27_Witness ==
  /\ Falsy(authPassword)
  /\ resp.op = "GET /oauth/authorize"
  /\ resp.status = 302
  /\ Own(authCodes, resp.code)
  /\ "10.0.0.1" \in DOMAIN rateLimitState
  /\ rateLimitState["10.0.0.1"].lockoutUntil > now

\* ---------------------------------------------------------------------------
\* C28: when the loop of a run of shutdown has finished, no session is
\* registered with a transport that has not closed, initialize requests
\* handled while the run was awaiting a close() included.
C28_NoOpenSessionAfterLoop ==
  [][\A i \in 1..MaxSignals : LoopEnds(i) =>
       \A sid \in DOMAIN transports' : tr'[transports'[sid]].closed
    ]_vars

\* ---------------------------------------------------------------------------
\* C29: a lockout ends.  Once now has reached the lockoutUntil the caller's
\* threshold-th failure set (the time of that failure plus the window,
\* whatever submissions were answered 429 since), a submission of the
\* configured password by that caller is not answered 429: it is answered
\* with a redirect carrying a newly stored code and the caller's entry is
\* removed.
C29_LockoutEnds ==
  [][\A ip \in Ips :
       (/\ Submits(ip)
        /\ ~Falsy(authPassword)
        /\ resp'.password = authPassword
        /\ \/ /\ ipHist[ip].streak = RATE_LIMIT_MAX_ATTEMPTS
              /\ now >= ipHist[ip].nthAt + RATE_LIMIT_WINDOW_MS
           \/ /\ ip \in DOMAIN rateLimitState
              /\ rateLimitState[ip].attempts >= RATE_LIMIT_MAX_ATTEMPTS
              /\ now >= rateLimitState[ip].lockoutUntil) =>
         /\ resp'.status = 302
         /\ Truthy(resp'.code)
         /\ ~Own(authCodes, resp'.code)
         /\ Own(authCodes', resp'.code)
         /\ ip \notin DOMAIN rateLimitState'
    ]_vars

\* the caller was locked out, and at the very time its lockout ended its
\* correct password was accepted
C29_Witness ==
  /\ resp.op = "POST /oauth/authorize"
  /\ resp.ip = "10.0.0.2"
  /\ resp.status = 302
  /\ resp.password = authPassword
  /\ resp.attemptsBefore = RATE_LIMIT_MAX_ATTEMPTS
  /\ ipHist["10.0.0.2"].cleared = RATE_LIMIT_MAX_ATTEMPTS
  /\ "10.0.0.2" \notin DOMAIN rateLimitState
  /\ now = RATE_LIMIT_WINDOW_MS

====
